---- MODULE Spec2Model ----
(***************************************************************************)
(* Model of the calculation core of EnergySense AI: the regional billing   *)
(* engine (core/billing_engine.py), the physics engine                     *)
(* (core/physics_engine.py), energy_math.py, the forecasting engine        *)
(* (core/forecasting_engine.py), the input validation                      *)
(* (core/input_validation.py), and the bills and the assistant of the      *)
(* dashboards (streamlit_app.py, energysense_advanced_ai.py).              *)
(*                                                                         *)
(* Python floats are modelled as exact rationals <<n, d>> in lowest terms  *)
(* with d > 0; binary rounding of the float operations is not modelled.    *)
(* None is the pair <<0, 0>>.                                              *)
(*                                                                         *)
(* A behaviour is one request (the arguments of a call, drawn by Init)     *)
(* followed by the calls of the functions that accept these arguments;     *)
(* each action is one function of the source and stores what it returns    *)
(* or raises in ret.  is_trained is the field of the ForecastingEngine,      *)
(* africa_ai the dashboard's AfricaEnergyAI object and api_requests the     *)
(* number of requests it has posted to the API.                            *)
(***************************************************************************)
EXTENDS Integers, Sequences, FiniteSets, TLC

VARIABLES req, ret, is_trained, africa_ai, api_requests

vars == <<req, ret, is_trained, africa_ai, api_requests>>

----------------------------------------------------------------------------
(* Exact arithmetic standing for Python's float operators.                 *)

Abs(x) == IF x < 0 THEN -x ELSE x

RECURSIVE GCD(_, _)
GCD(a, b) == IF b = 0 THEN a ELSE GCD(b, a % b)

\* the float n / d, in lowest terms with a positive denominator
Rat(n, d) ==
  LET g == GCD(Abs(n), Abs(d))
      s == IF d < 0 THEN -1 ELSE 1
  IN  <<(s * n) \div g, Abs(d) \div g>>

Num(n) == <<n, 1>>

None == <<0, 0>>

RAdd(a, b) ==
  LET g == GCD(a[2], b[2])
  IN  Rat(a[1] * (b[2] \div g) + b[1] * (a[2] \div g), (a[2] \div g) * b[2])

RNeg(a) == <<-a[1], a[2]>>

RSub(a, b) == RAdd(a, RNeg(b))

RMul(a, b) ==
  LET g1 == GCD(Abs(a[1]), b[2])
      g2 == GCD(Abs(b[1]), a[2])
      h1 == IF g1 = 0 THEN 1 ELSE g1
      h2 == IF g2 = 0 THEN 1 ELSE g2
  IN  Rat((a[1] \div h1) * (b[1] \div h2), (a[2] \div h2) * (b[2] \div h1))

\* a / b for b # 0
RDiv(a, b) == RMul(a, Rat(b[2], b[1]))

RLt(a, b) == RSub(a, b)[1] < 0

RLe(a, b) == RSub(a, b)[1] <= 0

RMin(a, b) == IF RLe(a, b) THEN a ELSE b

RMax(a, b) == IF RLe(b, a) THEN a ELSE b

Zero == Num(0)

One == Num(1)

----------------------------------------------------------------------------
(* core/billing_engine.py                                                  *)

TariffTier(max_kwh, rate_per_kwh, description) ==
  [max_kwh |-> max_kwh, rate_per_kwh |-> rate_per_kwh,
   description |-> description]

\* BillingEngine.__init__: the regional configurations
regional_configs ==
  [c \in {"Nigeria", "USA", "UK", "India"} |->
    CASE c = "Nigeria" ->
           [country |-> "Nigeria", currency |-> "NGN", tariff_type |-> "tiered",
            base_rate |-> Num(68), fixed_charge |-> Num(1000),
            tax_rate |-> Rat(75, 1000),
            tiers |-> << TariffTier(Num(50), Num(30), "Lifeline tariff"),
                         TariffTier(Num(100), Num(50), "Residential R1"),
                         TariffTier(Num(300), Num(68), "Residential R2"),
                         TariffTier(None, Num(85), "Residential R3") >>,
            peak_multiplier |-> Rat(15, 10)]
      [] c = "USA" ->
           [country |-> "USA", currency |-> "USD", tariff_type |-> "tiered",
            base_rate |-> Rat(15, 100), fixed_charge |-> Num(10),
            tax_rate |-> Rat(8, 100),
            tiers |-> << TariffTier(Num(300), Rat(12, 100), "Baseline"),
                         TariffTier(Num(600), Rat(15, 100), "Tier 1"),
                         TariffTier(None, Rat(25, 100), "Tier 2") >>,
            peak_multiplier |-> Rat(15, 10)]
      [] c = "UK" ->
           [country |-> "UK", currency |-> "GBP", tariff_type |-> "flat",
            base_rate |-> Rat(28, 100), fixed_charge |-> Num(25),
            tax_rate |-> Rat(5, 100),
            tiers |-> << >>,
            peak_multiplier |-> Rat(15, 10)]
      [] c = "India" ->
           [country |-> "India", currency |-> "INR", tariff_type |-> "tiered",
            base_rate |-> Num(6), fixed_charge |-> Num(50),
            tax_rate |-> Rat(12, 100),
            tiers |-> << TariffTier(Num(100), Num(3), "Domestic LT-1A"),
                         TariffTier(Num(200), Rat(45, 10), "Domestic LT-1B"),
                         TariffTier(Num(300), Num(6), "Domestic LT-1C"),
                         TariffTier(None, Rat(75, 10), "Domestic LT-1D") >>,
            peak_multiplier |-> Rat(15, 10)]]

Ok(v) == [status |-> "ok", value |-> v]

Raise(exc, msg) == [status |-> exc, msg |-> msg]

Pending == [status |-> "pending"]

\* total_bill / energy_kwh if energy_kwh > 0 else 0
effective_rate(total_bill, energy_kwh) ==
  IF RLt(Zero, energy_kwh) THEN RDiv(total_bill, energy_kwh) ELSE Zero

\* calculate_flat_tariff billing at the first tier's rate when the
\* configuration has tiers
calculate_flat_tariff_tier_rate(energy_kwh, config) ==
  LET rate        == IF config.tiers = << >> THEN config.base_rate
                     ELSE config.tiers[1].rate_per_kwh
      energy_cost == RMul(energy_kwh, rate)
      subtotal    == RAdd(energy_cost, config.fixed_charge)
      tax_amount  == RMul(subtotal, config.tax_rate)
      total_bill  == RAdd(subtotal, tax_amount)
  IN  [energy_cost |-> energy_cost,
       fixed_charge |-> config.fixed_charge,
       subtotal |-> subtotal,
       tax_amount |-> tax_amount,
       total_bill |-> total_bill,
       effective_rate |-> effective_rate(total_bill, energy_kwh)]

\* calculate_flat_tariff charging tax on the energy cost only
calculate_flat_tariff_untaxed_fixed(energy_kwh, config) ==
  LET energy_cost == RMul(energy_kwh, config.base_rate)
      subtotal    == RAdd(energy_cost, config.fixed_charge)
      tax_amount  == RMul(energy_cost, config.tax_rate)
      total_bill  == RAdd(subtotal, tax_amount)
  IN  [energy_cost |-> energy_cost,
       fixed_charge |-> config.fixed_charge,
       subtotal |-> subtotal,
       tax_amount |-> tax_amount,
       total_bill |-> total_bill,
       effective_rate |-> effective_rate(total_bill, energy_kwh)]

calculate_flat_tariff(energy_kwh, config) ==
  LET energy_cost == RMul(energy_kwh, config.base_rate)
      subtotal    == RAdd(energy_cost, config.fixed_charge)
      tax_amount  == RMul(subtotal, config.tax_rate)
      total_bill  == RAdd(subtotal, tax_amount)
  IN  [energy_cost |-> energy_cost,
       fixed_charge |-> config.fixed_charge,
       subtotal |-> subtotal,
       tax_amount |-> tax_amount,
       total_bill |-> total_bill,
       effective_rate |-> effective_rate(total_bill, energy_kwh)]

\* the energy consumed in one tier: all that remains in the unlimited top
\* tier, min(energy_remaining, tier.max_kwh) in a limited one
tier_energy_all_remaining(tier, energy_remaining) == energy_remaining

tier_energy_of(tier, energy_remaining) ==
  IF tier.max_kwh = None
    THEN energy_remaining
    ELSE RMin(energy_remaining, tier.max_kwh)

\* the test that ends the loop over the tiers
tier_loop_break_negative(energy_remaining) == RLt(energy_remaining, Zero)

tier_loop_break(energy_remaining) == RLe(energy_remaining, Zero)

\* the for loop of calculate_tiered_tariff, from tier i on; st holds the
\* loop's locals energy_remaining, energy_cost and tier_breakdown
RECURSIVE TierLoop(_, _, _)
TierLoop(tiers, i, st) ==
  IF i > Len(tiers) THEN st
  ELSE IF tier_loop_break(st.energy_remaining) THEN st
  ELSE
    LET tier        == tiers[i]
        tier_energy == tier_energy_of(tier, st.energy_remaining)
        tier_cost   == RMul(tier_energy, tier.rate_per_kwh)
        remaining   == RSub(st.energy_remaining, tier_energy)
    IN  TierLoop(tiers, i + 1,
          [energy_remaining |->
             IF tier.max_kwh # None THEN RMax(Zero, remaining) ELSE remaining,
           energy_cost |-> RAdd(st.energy_cost, tier_cost),
           tier_breakdown |-> Append(st.tier_breakdown,
             [tier |-> tier.description, energy_kwh |-> tier_energy,
              rate |-> tier.rate_per_kwh, cost |-> tier_cost])])

\* the part of calculate_tiered_tariff after the loop; st holds the
\* loop's locals at its end
tiered_bill_of(st, energy_kwh, config) ==
  LET energy_cost == st.energy_cost
      subtotal    == RAdd(energy_cost, config.fixed_charge)
      tax_amount  == RMul(subtotal, config.tax_rate)
      total_bill  == RAdd(subtotal, tax_amount)
  IN  [energy_cost |-> energy_cost,
       fixed_charge |-> config.fixed_charge,
       subtotal |-> subtotal,
       tax_amount |-> tax_amount,
       total_bill |-> total_bill,
       effective_rate |-> effective_rate(total_bill, energy_kwh),
       tier_breakdown |-> st.tier_breakdown]

calculate_tiered_tariff(energy_kwh, config) ==
  IF config.tiers = << >> THEN calculate_flat_tariff(energy_kwh, config)
  ELSE tiered_bill_of(TierLoop(config.tiers, 1,
                        [energy_remaining |-> energy_kwh,
                         energy_cost |-> Zero, tier_breakdown |-> << >>]),
                      energy_kwh, config)

\* energy_kwh * (1 - peak_percentage)
off_peak_share_whole(energy_kwh, peak_percentage) == energy_kwh

off_peak_share(energy_kwh, peak_percentage) ==
  RMul(energy_kwh, RSub(One, peak_percentage))

calculate_time_of_use_tariff(energy_kwh, peak_percentage, config) ==
  LET peak_energy     == RMul(energy_kwh, peak_percentage)
      off_peak_energy == off_peak_share(energy_kwh, peak_percentage)
      peak_rate       == RMul(config.base_rate, config.peak_multiplier)
      off_peak_rate   == config.base_rate
      peak_cost       == RMul(peak_energy, peak_rate)
      off_peak_cost   == RMul(off_peak_energy, off_peak_rate)
      energy_cost     == RAdd(peak_cost, off_peak_cost)
      subtotal        == RAdd(energy_cost, config.fixed_charge)
      tax_amount      == RMul(subtotal, config.tax_rate)
      total_bill      == RAdd(subtotal, tax_amount)
  IN  [peak_energy |-> peak_energy,
       off_peak_energy |-> off_peak_energy,
       peak_cost |-> peak_cost,
       off_peak_cost |-> off_peak_cost,
       energy_cost |-> energy_cost,
       fixed_charge |-> config.fixed_charge,
       subtotal |-> subtotal,
       tax_amount |-> tax_amount,
       total_bill |-> total_bill,
       effective_rate |-> effective_rate(total_bill, energy_kwh)]

\* bill_details.update({...}): the metadata calculate_bill adds
Metadata(config, energy_kwh) ==
  [country |-> config.country, currency |-> config.currency,
   tariff_type |-> config.tariff_type, energy_kwh |-> energy_kwh,
   tax_rate_percent |-> RMul(config.tax_rate, Num(100))]

\* the dispatch of calculate_bill on config.tariff_type, with the metadata
bill_details(energy_kwh, peak_percentage, config) ==
  CASE config.tariff_type = "flat" ->
         Ok([bill |-> calculate_flat_tariff(energy_kwh, config),
             meta |-> Metadata(config, energy_kwh)])
    [] config.tariff_type = "tiered" ->
         Ok([bill |-> calculate_tiered_tariff(energy_kwh, config),
             meta |-> Metadata(config, energy_kwh)])
    [] config.tariff_type = "time_of_use" ->
         Ok([bill |-> calculate_time_of_use_tariff(energy_kwh,
                          peak_percentage, config),
             meta |-> Metadata(config, energy_kwh)])
    [] OTHER -> Raise("ValueError", "Unknown tariff type")

NoConfigMsg == "Billing configuration not available"

NegativeEnergyMsg == "Energy consumption cannot be negative"

calculate_bill_energy_first(energy_kwh, country, peak_percentage) ==
  IF RLt(energy_kwh, Zero)
    THEN Raise("ValueError", NegativeEnergyMsg)
  ELSE IF country \notin DOMAIN regional_configs
    THEN Raise("ValueError", NoConfigMsg)
  ELSE bill_details(energy_kwh, peak_percentage, regional_configs[country])

calculate_bill(energy_kwh, country, peak_percentage) ==
  IF country \notin DOMAIN regional_configs
    THEN Raise("ValueError", NoConfigMsg)
  ELSE IF RLt(energy_kwh, Zero)
    THEN Raise("ValueError", NegativeEnergyMsg)
  ELSE bill_details(energy_kwh, peak_percentage, regional_configs[country])

\* BillingEngine.estimate_savings after its two calls of calculate_bill,
\* whose results are current_bill and reduced_bill; peak_percentage takes
\* its default 0.3 in both calls
savings_of(current_bill, reduced_bill, current_kwh, reduced_kwh) ==
  IF current_bill.status # "ok" THEN current_bill
  ELSE IF reduced_bill.status # "ok" THEN reduced_bill
  ELSE IF current_kwh = Zero
    THEN Raise("ZeroDivisionError", "division by zero")
  ELSE
    LET current_total == current_bill.value.bill.total_bill
        reduced_total == reduced_bill.value.bill.total_bill
    IN  Ok([energy_reduction_kwh |-> RSub(current_kwh, reduced_kwh),
            energy_reduction_percent |->
              RMul(RDiv(RSub(current_kwh, reduced_kwh), current_kwh),
                   Num(100)),
            cost_savings |-> RSub(current_total, reduced_total),
            cost_savings_percent |->
              RMul(RDiv(RSub(current_total, reduced_total),
                        current_total), Num(100)),
            current_bill |-> current_total,
            reduced_bill |-> reduced_total])

estimate_savings(current_kwh, reduced_kwh, country) ==
  savings_of(calculate_bill(current_kwh, country, Rat(3, 10)),
             calculate_bill(reduced_kwh, country, Rat(3, 10)),
             current_kwh, reduced_kwh)

----------------------------------------------------------------------------
(* core/physics_engine.py, core/energy_math.py, streamlit_app.py           *)

RAbs(a) == <<Abs(a[1]), a[2]>>

\* PhysicsEngine.__init__: self.T_REF = 22.0
T_REF_25 == Num(25)

T_REF == Num(22)

TEMP_MIN == -50

TEMP_MAX == 60

PositiveMsg == "All parameters must be positive"

TemperatureMsg == "Temperature outside realistic range"

\* the guard of device_energy_basic
invalid_device_args_hours_positive(power_w, hours, days, quantity) ==
  \/ RLe(power_w, Zero)
  \/ RLe(hours, Zero)
  \/ RLe(days, Zero)
  \/ RLe(quantity, Zero)

invalid_device_args(power_w, hours, days, quantity) ==
  \/ RLe(power_w, Zero)
  \/ RLt(hours, Zero)
  \/ RLe(days, Zero)
  \/ RLe(quantity, Zero)

device_energy_basic(power_w, hours, days, quantity) ==
  IF invalid_device_args(power_w, hours, days, quantity)
    THEN Raise("ValueError", PositiveMsg)
  ELSE
    LET energy_wh  == RMul(RMul(RMul(power_w, hours), days), quantity)
        energy_kwh == RDiv(energy_wh, Num(1000))
    IN  Ok(energy_kwh)

\* energy_math.device_energy
device_energy(power_w, hours, days, quantity) ==
  RDiv(RMul(RMul(RMul(power_w, hours), days), quantity), Num(1000))

\* streamlit_app.calculate_device_energy, ignoring the quantity
calculate_device_energy_single(power_w, hours_day, days_month, quantity) ==
  RDiv(RMul(RMul(power_w, hours_day), days_month), Num(1000))

\* streamlit_app.calculate_device_energy
calculate_device_energy(power_w, hours_day, days_month, quantity) ==
  RDiv(RMul(RMul(RMul(power_w, hours_day), days_month), quantity), Num(1000))

\* the range check of thermal_ode_model
temperature_out_of_range_inclusive(temperature) ==
  RLe(temperature, Num(TEMP_MIN)) \/ RLe(Num(TEMP_MAX), temperature)

temperature_out_of_range(temperature) ==
  RLt(temperature, Num(TEMP_MIN)) \/ RLt(Num(TEMP_MAX), temperature)

thermal_ode_model(energy_base, temperature, thermal_sensitivity) ==
  IF temperature_out_of_range(temperature)
    THEN Raise("ValueError", TemperatureMsg)
  ELSE
    LET delta_t    == RSub(temperature, T_REF)
        factor     == RAdd(One, RMul(thermal_sensitivity,
                                     RDiv(delta_t, T_REF)))
        correction_factor == RMax(Rat(1, 10), factor)
        corrected_energy  == RMul(energy_base, correction_factor)
    IN  Ok(corrected_energy)

\* energy_math.temperature_adjustment
temperature_adjustment(energy, temperature, alpha) ==
  RMul(energy,
       RAdd(One, RDiv(RMul(alpha, RSub(temperature, Num(22))), Num(22))))

\* physics_engine.temperature_adjustment, the legacy wrapper
physics_temperature_adjustment(energy, temperature, alpha) ==
  thermal_ode_model(energy, temperature, alpha)

thermal_coeffs ==
  [t \in {"cooling", "heating", "kitchen", "electronics", "lighting",
           "general"} |->
    CASE t = "cooling"     -> Rat(5, 100)
      [] t = "heating"     -> Rat(-4, 100)
      [] t = "kitchen"     -> Rat(2, 100)
      [] t = "electronics" -> Rat(1, 100)
      [] t = "lighting"    -> Rat(5, 1000)
      [] t = "general"     -> Rat(3, 100)]

advanced_thermal_model(energy_base, temperature, humidity, device_type) ==
  LET alpha == IF device_type \in DOMAIN thermal_coeffs
                 THEN thermal_coeffs[device_type] ELSE Rat(3, 100)
      temp_correction == thermal_ode_model(energy_base, temperature,
                                           RAbs(alpha))
  IN  IF temp_correction.status # "ok" THEN temp_correction
      ELSE IF device_type = "cooling" /\ RLt(Num(60), humidity)
        THEN LET humidity_factor ==
                   RAdd(One, RMul(Rat(1, 1000), RSub(humidity, Num(60))))
             IN  Ok(RMul(temp_correction.value, humidity_factor))
      ELSE temp_correction

\* device.get("category", "general")
category_of(device) ==
  IF "category" \in DOMAIN device THEN device.category ELSE "general"

\* the for loop of calculate_total_energy from device i on; an exception
\* raised for a device leaves the function with the results dropped
RECURSIVE DeviceLoop(_, _, _, _, _)
DeviceLoop(devices, i, temperature, humidity, results) ==
  IF i > Len(devices) THEN Ok(results)
  ELSE
    LET device == devices[i]
        base_energy == device_energy_basic(device.power_watts,
                         device.hours_per_day, device.days_per_month,
                         device.quantity)
    IN  IF base_energy.status # "ok" THEN base_energy
        ELSE
          LET corrected_energy == advanced_thermal_model(base_energy.value,
                                    temperature, humidity, category_of(device))
          IN  IF corrected_energy.status # "ok" THEN corrected_energy
              ELSE DeviceLoop(devices, i + 1, temperature, humidity,
                     [results EXCEPT
                        !.devices = Append(@,
                           [name |-> device.device_name,
                            base_energy |-> base_energy.value,
                            corrected_energy |-> corrected_energy.value,
                            temperature_impact |->
                              RSub(corrected_energy.value, base_energy.value)]),
                        !.total_base_energy = RAdd(@, base_energy.value),
                        !.total_corrected_energy =
                           RAdd(@, corrected_energy.value)])

calculate_total_energy(devices, temperature, humidity) ==
  LET loop == DeviceLoop(devices, 1, temperature, humidity,
                [devices |-> << >>,
                 total_base_energy |-> Zero,
                 total_corrected_energy |-> Zero,
                 temperature_impact |-> Zero,
                 efficiency_impact |-> Zero])
  IN  IF loop.status # "ok" THEN loop
      ELSE Ok([loop.value EXCEPT
                 !.temperature_impact =
                    RSub(loop.value.total_corrected_energy,
                         loop.value.total_base_energy)])

----------------------------------------------------------------------------
(* core/forecasting_engine.py                                              *)

\* np.clip(x, lo, hi)
clip_lower_only(x, lo, hi) == RMax(x, lo)

clip(x, lo, hi) == RMin(RMax(x, lo), hi)

\* ml_correction_layer; trained is self.is_trained and predicted is what
\* self.ml_model.predict returns for the scaled feature vector
ml_correction_layer(base_forecast, predicted, trained) ==
  IF ~trained THEN base_forecast
  ELSE
    LET correction_factor == clip(predicted, Rat(1, 2), Num(2))
    IN  RMul(base_forecast, correction_factor)

\* train_ml_model: the value of self.is_trained after training on
\* training_size examples
MIN_TRAINING == 10

trained_after(trained, training_size) ==
  IF training_size < MIN_TRAINING THEN trained ELSE TRUE

\* ForecastingEngine.__init__: self.seasonal_patterns
seasonal_patterns ==
  [m \in 1..12 |->
    CASE m = 1  -> Rat(115, 100)
      [] m = 2  -> Rat(110, 100)
      [] m = 3  -> Rat(105, 100)
      [] m = 4  -> Rat(95, 100)
      [] m = 5  -> One
      [] m = 6  -> Rat(120, 100)
      [] m = 7  -> Rat(125, 100)
      [] m = 8  -> Rat(125, 100)
      [] m = 9  -> Rat(115, 100)
      [] m = 10 -> One
      [] m = 11 -> Rat(105, 100)
      [] m = 12 -> Rat(110, 100)]

\* a date is a count of months; date.month
month_of(date) == ((date - 1) % 12) + 1

\* the sum of the floats of a sequence, added pairwise (the sum of exact
\* rationals does not depend on the order)
RECURSIVE RSum(_)
RSum(xs) ==
  IF Len(xs) = 0 THEN Zero
  ELSE IF Len(xs) = 1 THEN xs[1]
  ELSE LET half == Len(xs) \div 2
       IN  RAdd(RSum(SubSeq(xs, 1, half)),
                RSum(SubSeq(xs, half + 1, Len(xs))))

\* Series.mean()
mean(xs) == RDiv(RSum(xs), Num(Len(xs)))

\* historical_data['energy_kwh'].values
energy_values_of(historical_data) ==
  [i \in 1..Len(historical_data) |-> historical_data[i].energy_kwh]

\* np.polyfit(np.arange(len(y)), y, 1)[0]: the least-squares slope
polyfit_slope(y) ==
  LET n   == Len(y)
      sx  == RSum([i \in 1..n |-> Num(i - 1)])
      sxx == RSum([i \in 1..n |-> Num((i - 1) * (i - 1))])
      sy  == RSum(y)
      sxy == RSum([i \in 1..n |-> RMul(Num(i - 1), y[i])])
  IN  RDiv(RSub(RMul(Num(n), sxy), RMul(sx, sy)),
           RSub(RMul(Num(n), sxx), RMul(sx, sx)))

\* the trend direction sarima_forecast derives from the slope
trend_direction_of_sign(trend_coeff) ==
  IF RLt(Zero, trend_coeff) THEN "Increasing"
  ELSE IF RLt(trend_coeff, Zero) THEN "Decreasing"
  ELSE "Stable"

trend_direction_of(trend_coeff) ==
  IF RLt(RAbs(trend_coeff), Rat(1, 2)) THEN "Stable"
  ELSE IF RLt(Zero, trend_coeff) THEN "Increasing"
  ELSE "Decreasing"

\* historical_data.groupby('month')['energy_kwh'].mean(): the months that
\* occur in the history, and the mean energy of a month that occurs
months_in(historical_data) ==
  {historical_data[i].month : i \in 1..Len(historical_data)}

monthly_average(historical_data, m) ==
  LET in_month(row) == row.month = m
  IN  mean(energy_values_of(SelectSeq(historical_data, in_month)))

\* historical_data['date'].max()
RECURSIVE max_date(_)
max_date(historical_data) ==
  IF Len(historical_data) = 1 THEN historical_data[1].date
  ELSE LET rest == max_date(Tail(historical_data))
       IN  IF historical_data[1].date > rest
             THEN historical_data[1].date ELSE rest

\* the seasonal adjustment of a forecast month
seasonal_pattern_only(historical_data, forecast_month) ==
  seasonal_patterns[forecast_month]

seasonal_adjustment_of(historical_data, forecast_month) ==
  IF forecast_month \in months_in(historical_data)
    THEN RDiv(monthly_average(historical_data, forecast_month),
              mean(energy_values_of(historical_data)))
    ELSE seasonal_patterns[forecast_month]

\* the test len(historical_data) < 6
too_short_below_five(historical_data) == Len(historical_data) < 5

too_short(historical_data) == Len(historical_data) < 6

HistoryMsg == "Need at least 6 months of historical data"

\* sarima_forecast; seasonal_strength, a standard deviation, is left out
sarima_forecast(historical_data, forecast_months) ==
  IF too_short(historical_data) THEN Raise("ValueError", HistoryMsg)
  ELSE
    LET energy_values == energy_values_of(historical_data)
        trend_coeff   == polyfit_slope(energy_values)
        last_date     == max_date(historical_data)
        forecast(i) ==
          LET forecast_date  == last_date + i
              forecast_month == month_of(forecast_date)
              base_forecast  ==
                RAdd(energy_values[Len(energy_values)],
                     RMul(trend_coeff, Num(i)))
              seasonal_adjustment ==
                seasonal_adjustment_of(historical_data, forecast_month)
              forecast_energy == RMul(base_forecast, seasonal_adjustment)
          IN  [month |-> i,
               date |-> forecast_date,
               predicted_energy |-> forecast_energy,
               confidence_lower |-> RMul(forecast_energy, Rat(85, 100)),
               confidence_upper |-> RMul(forecast_energy, Rat(115, 100)),
               seasonal_factor |-> seasonal_adjustment]
    IN  Ok([trend_coefficient |-> trend_coeff,
            trend_direction |-> trend_direction_of(trend_coeff),
            forecasts |-> [i \in 1..forecast_months |-> forecast(i)]])

\* max(energy, base_energy * 0.5)
floor_energy_unfloored(energy, base_energy) == energy

floor_energy(energy, base_energy) ==
  RMax(energy, RMul(base_energy, Rat(1, 2)))

\* generate_synthetic_history; last_date is the last month end that
\* pd.date_range(end=now, periods=months, freq='M') yields, and draws[i]
\* is what the i-th np.random.normal(1.0, 0.1) returns
generate_synthetic_history(base_energy, months, last_date, draws) ==
  [i \in 1..months |->
    LET date            == last_date - months + i
        month           == month_of(date)
        seasonal_factor == seasonal_patterns[month]
        trend_factor    == RAdd(One, RMul(Num(i - 1), Rat(1, 100)))
        random_factor   == draws[i]
        energy == RMul(RMul(RMul(base_energy, seasonal_factor),
                            trend_factor), random_factor)
    IN  [date |-> date,
         month |-> month,
         energy_kwh |-> floor_energy(energy, base_energy),
         seasonal_factor |-> seasonal_factor,
         trend_factor |-> trend_factor]]

\* the confidence level of a forecast
confidence_level_of(confidence_ratio) ==
  IF RLt(confidence_ratio, Rat(2, 10)) THEN "High"
  ELSE IF RLt(confidence_ratio, Rat(4, 10)) THEN "Medium"
  ELSE "Low"

\* the season description of the explanation; the explanation is kept as
\* its parts, the f-string that joins them is not modelled
season_desc_of(seasonal_factor) ==
  IF RLt(Rat(11, 10), seasonal_factor) THEN "high consumption season"
  ELSE IF RLt(seasonal_factor, Rat(9, 10)) THEN "low consumption season"
  ELSE "moderate consumption season"

\* the part of comprehensive_forecast after the forecast is corrected:
\* the confidence level, the bill and the ForecastResult
forecast_result_of(sarima_results, primary_forecast, corrected_energy, bill) ==
  LET confidence_range ==
        RSub(primary_forecast.confidence_upper,
             primary_forecast.confidence_lower)
      confidence_ratio == RDiv(confidence_range, corrected_energy)
  IN  IF bill.status # "ok" THEN bill
      ELSE Ok([predicted_energy |-> corrected_energy,
               predicted_bill |-> bill.value.bill.total_bill,
               confidence_level |-> confidence_level_of(confidence_ratio),
               confidence_interval |->
                 <<primary_forecast.confidence_lower,
                   primary_forecast.confidence_upper>>,
               trend |-> sarima_results.trend_direction,
               seasonality_factor |-> primary_forecast.seasonal_factor,
               explanation |->
                 [trend_desc |-> sarima_results.trend_direction,
                  season_desc |->
                    season_desc_of(primary_forecast.seasonal_factor)]])

\* the part of comprehensive_forecast from the ML correction on
corrected_forecast_of(sarima_results, primary_forecast, corrected_energy, country) ==
  forecast_result_of(sarima_results, primary_forecast, corrected_energy,
                     calculate_bill(corrected_energy, country, Rat(3, 10)))

\* the part of comprehensive_forecast after its call of sarima_forecast,
\* whose result or exception is sarima
primary_forecast_of(sarima, country, predicted, trained) ==
  IF sarima.status # "ok" THEN sarima
  ELSE IF Len(sarima.value.forecasts) = 0
    THEN Raise("IndexError", "list index out of range")
  ELSE corrected_forecast_of(sarima.value, sarima.value.forecasts[1],
         ml_correction_layer(sarima.value.forecasts[1].predicted_energy,
                             predicted, trained),
         country)

\* comprehensive_forecast; the features built from devices and country
\* reach the result only through predicted, what the trained regressor
\* returns for them
comprehensive_forecast(current_energy, country, months_ahead, last_date, draws, predicted, trained) ==
  primary_forecast_of(
    sarima_forecast(generate_synthetic_history(current_energy, 12,
                                               last_date, draws),
                    months_ahead),
    country, predicted, trained)

----------------------------------------------------------------------------
(* streamlit_app.py and energysense_advanced_ai.py: the dashboards' bills   *)

\* AFRICAN_COUNTRIES of streamlit_app.py; the currency symbols are written
\* in ASCII
AFRICAN_COUNTRIES ==
  [c \in {"Cameroon", "Nigeria", "Kenya", "Ghana", "South Africa"} |->
    CASE c = "Cameroon" ->
           [currency |-> "FCFA", rate |-> Num(79), fixed |-> Num(1500), tax |-> Rat(175, 1000), grid_stability |-> Rat(65, 100)]
      [] c = "Nigeria" ->
           [currency |-> "NGN", rate |-> Num(68), fixed |-> Num(1000), tax |-> Rat(75, 1000), grid_stability |-> Rat(55, 100)]
      [] c = "Kenya" ->
           [currency |-> "KSh", rate |-> Num(24), fixed |-> Num(200), tax |-> Rat(16, 100), grid_stability |-> Rat(75, 100)]
      [] c = "Ghana" ->
           [currency |-> "GHS", rate |-> Rat(120, 100), fixed |-> Num(25), tax |-> Rat(125, 1000), grid_stability |-> Rat(70, 100)]
      [] c = "South Africa" ->
           [currency |-> "R", rate |-> Rat(185, 100), fixed |-> Num(150), tax |-> Rat(15, 100), grid_stability |-> Rat(80, 100)]]

\* AFRICAN_COUNTRIES of energysense_advanced_ai.py
ADVANCED_AFRICAN_COUNTRIES ==
  [c \in 
      {"Nigeria", "South Africa", "Egypt", "Kenya",
       "Ghana", "Morocco", "Ethiopia", "Tanzania",
       "Uganda", "Algeria", "Cameroon"} |->
    CASE c = "Nigeria" ->
           [currency |-> "NGN", rate |-> Num(68), fixed |-> Num(1000), tax |-> Rat(75, 1000)]
      [] c = "South Africa" ->
           [currency |-> "R", rate |-> Rat(185, 100), fixed |-> Num(150), tax |-> Rat(15, 100)]
      [] c = "Egypt" ->
           [currency |-> "EGP", rate |-> Rat(145, 100), fixed |-> Num(50), tax |-> Rat(10, 100)]
      [] c = "Kenya" ->
           [currency |-> "KSh", rate |-> Num(24), fixed |-> Num(200), tax |-> Rat(16, 100)]
      [] c = "Ghana" ->
           [currency |-> "GHS", rate |-> Rat(120, 100), fixed |-> Num(25), tax |-> Rat(125, 1000)]
      [] c = "Morocco" ->
           [currency |-> "DH", rate |-> Rat(115, 100), fixed |-> Num(30), tax |-> Rat(20, 100)]
      [] c = "Ethiopia" ->
           [currency |-> "Br", rate |-> Rat(650, 100), fixed |-> Num(15), tax |-> Rat(15, 100)]
      [] c = "Tanzania" ->
           [currency |-> "TSh", rate |-> Num(280), fixed |-> Num(5000), tax |-> Rat(18, 100)]
      [] c = "Uganda" ->
           [currency |-> "USh", rate |-> Num(420), fixed |-> Num(8000), tax |-> Rat(18, 100)]
      [] c = "Algeria" ->
           [currency |-> "DA", rate |-> Rat(185, 10), fixed |-> Num(200), tax |-> Rat(19, 100)]
      [] c = "Cameroon" ->
           [currency |-> "Xaf", rate |-> Rat(185, 10), fixed |-> Num(200), tax |-> Rat(19, 100)]]

KeyError(key) == Raise("KeyError", key)

\* the energy of a device in calculate_africa_bill
africa_energy_always_adjusted(device, config, include_outages) ==
  RMul(calculate_device_energy(device.power, device.hours, Num(30),
                               device.quantity),
       config.grid_stability)

africa_energy(device, config, include_outages) ==
  LET energy == calculate_device_energy(device.power, device.hours, Num(30),
                                        device.quantity)
  IN  IF include_outages THEN RMul(energy, config.grid_stability)
      ELSE energy

\* streamlit_app.calculate_africa_bill
calculate_africa_bill(devices, country, include_outages) ==
  IF country \notin DOMAIN AFRICAN_COUNTRIES THEN KeyError(country)
  ELSE
    LET config == AFRICAN_COUNTRIES[country]
        energies ==
          [i \in 1..Len(devices) |->
             africa_energy(devices[i], config, include_outages)]
        total_energy == RSum(energies)
        energy_cost  == RMul(total_energy, config.rate)
        fixed_charge == config.fixed
        tax == RMul(RAdd(energy_cost, fixed_charge), config.tax)
        total_bill == RAdd(RAdd(energy_cost, fixed_charge), tax)
    IN  Ok([total_energy |-> total_energy,
            energy_cost |-> energy_cost,
            fixed_charge |-> fixed_charge,
            tax |-> tax,
            total_bill |-> total_bill,
            currency |-> config.currency,
            device_costs |->
              [i \in 1..Len(devices) |->
                 [name |-> devices[i].name,
                  energy |-> energies[i],
                  cost |-> RMul(energies[i], config.rate)]],
            grid_adjusted |-> include_outages])

\* energysense_advanced_ai.calculate_energy
calculate_energy(power, hours, days, quantity) ==
  RDiv(RMul(RMul(RMul(power, hours), days), quantity), Num(1000))

\* the temperature adjustment of calculate_comprehensive_bill
adjusted_energy_of_28(base_energy, temperature) ==
  RMul(base_energy,
       RAdd(One, RDiv(RMul(Rat(3, 100), RSub(temperature, Num(28))),
                      Num(22))))

adjusted_energy_of(base_energy, temperature) ==
  RMul(base_energy,
       RAdd(One, RDiv(RMul(Rat(3, 100), RSub(temperature, Num(22))),
                      Num(22))))

\* energysense_advanced_ai.calculate_comprehensive_bill
calculate_comprehensive_bill(devices, country, temperature) ==
  IF country \notin DOMAIN ADVANCED_AFRICAN_COUNTRIES THEN KeyError(country)
  ELSE
    LET config == ADVANCED_AFRICAN_COUNTRIES[country]
        energies ==
          [i \in 1..Len(devices) |->
             adjusted_energy_of(
               calculate_energy(devices[i].power, devices[i].hours, Num(30),
                                devices[i].quantity),
               temperature)]
        total_energy == RSum(energies)
        energy_cost  == RMul(total_energy, config.rate)
        subtotal     == RAdd(energy_cost, config.fixed)
        tax          == RMul(subtotal, config.tax)
        total_bill   == RAdd(subtotal, tax)
    IN  Ok([total_energy |-> total_energy,
            energy_cost |-> energy_cost,
            fixed_charge |-> config.fixed,
            tax |-> tax,
            total_bill |-> total_bill,
            currency |-> config.currency,
            device_breakdown |->
              [i \in 1..Len(devices) |->
                 [name |-> devices[i].name,
                  energy |-> energies[i],
                  cost |-> RMul(energies[i], config.rate)]]])

----------------------------------------------------------------------------
(* streamlit_app.py: the assistant AfricaEnergyAI                          *)

\* africa_ai before initialize_ai() has run
NoObject == [constructed |-> FALSE]

\* an attribute that __init__ has not assigned yet
Unset == "<unset>"

BASE_URL == "https://openrouter.ai/api/v1/chat/completions"

\* what requests.post does with a request: an answer with a status code
\* (and, for 200, a body with or without choices), a timeout, or another
\* exception such as a connection error or a body that is not JSON
Answer(status_code, choices) ==
  [outcome |-> "answer", status_code |-> status_code, choices |-> choices]

Timeout == [outcome |-> "timeout"]

OtherException == [outcome |-> "exception"]

\* _test_api_connection: the result, and the number of requests posted.
\* Reading self.base_url before __init__ assigned it raises AttributeError
\* inside the try block, which the bare except turns into False.
test_api_connection(self, api) ==
  IF self.api_key = "" THEN [result |-> FALSE, posted |-> 0]
  ELSE IF self.base_url = Unset THEN [result |-> FALSE, posted |-> 0]
  ELSE IF api.outcome = "answer"
    THEN [result |-> api.status_code = 200, posted |-> 1]
  ELSE [result |-> FALSE, posted |-> 1]

\* AfricaEnergyAI.__init__: api_key, then enabled, then base_url
africa_ai_init(api_key, api) ==
  LET self1 == [constructed |-> TRUE, api_key |-> api_key,
                enabled |-> Unset, base_url |-> Unset]
      test  == test_api_connection(self1, api)
      self2 == [self1 EXCEPT !.enabled = test.result]
      self3 == [self2 EXCEPT !.base_url = BASE_URL]
  IN  [self |-> self3, posted |-> test.posted]

\* int(x) of a float: truncation towards zero
int(x) == IF x[1] >= 0 THEN x[1] \div x[2] ELSE -((-x[1]) \div x[2])

\* any(word in msg_lower for word in words); a message is modelled by the
\* set of the keywords it contains
any_word_in(words, user_message) == words \cap user_message # {}

\* get_fallback_response: the canned text, as its topic and the values
\* the f-string inserts
get_fallback_response(user_message, context) ==
  LET budget   == context.budget
      currency == context.currency
      country  == context.country
  IN  IF any_word_in({"save", "reduce", "lower", "cut", "decrease"},
                     user_message)
        THEN [topic |-> "savings", country |-> country,
              currency |-> currency,
              impact |-> int(RMul(Num(budget), Rat(3, 10)))]
      ELSE IF any_word_in({"budget", "money", "cost", "afford",
                           "expensive"}, user_message)
        THEN LET daily_budget == budget \div 30
             IN  [topic |-> "budget", currency |-> currency,
                  daily_limit |-> daily_budget,
                  weekly_target |-> budget \div 4,
                  reserve |-> int(RMul(Num(budget), Rat(2, 10))),
                  lighting |-> int(RMul(Num(budget), Rat(25, 100))),
                  phone |-> int(RMul(Num(budget), Rat(15, 100))),
                  cooling |-> int(RMul(Num(budget), Rat(35, 100))),
                  entertainment |-> int(RMul(Num(budget), Rat(25, 100))),
                  warning |-> int(RMul(Num(daily_budget), Rat(15, 10)))]
      ELSE IF any_word_in({"device", "appliance", "buy", "purchase",
                           "recommend"}, user_message)
        THEN [topic |-> "devices", country |-> country,
              currency |-> currency]
      ELSE IF any_word_in({"outage", "blackout", "power cut",
                           "load shedding", "grid"}, user_message)
        THEN [topic |-> "outage", country |-> country,
              currency |-> currency]
      ELSE [topic |-> "general", country |-> country,
            currency |-> currency, budget |-> budget,
            household_size |-> context.household_size]

\* the test that sends get_response to the fallback at once
assistant_off_without_key(self) == self.api_key = ""

assistant_off(self) == ~self.enabled

\* get_response: what it returns, and the number of requests posted
get_response(self, user_message, context, api) ==
  IF assistant_off(self)
    THEN [out |-> Ok(get_fallback_response(user_message, context)),
          posted |-> 0]
  ELSE IF api.outcome = "answer" /\ api.status_code = 200
          /\ api.choices # << >>
    THEN [out |-> Ok([topic |-> "ai", content |-> api.choices[1]]),
          posted |-> 1]
  ELSE [out |-> Ok(get_fallback_response(user_message, context)),
        posted |-> 1]

----------------------------------------------------------------------------
(* core/input_validation.py                                                *)

STANDARD_VOLTAGES == {Num(110), Num(120), Num(220), Num(230), Num(240)}

\* the power rule of DeviceInput.validate
power_unrealistic_negative_only(power_watts) ==
  RLt(power_watts, Zero) \/ RLt(Num(10000), power_watts)

power_unrealistic(power_watts) ==
  RLe(power_watts, Zero) \/ RLt(Num(10000), power_watts)

\* DeviceInput.validate: the pair (len(errors) == 0, errors); an error
\* message is its rule and the value its f-string inserts
validate(self) ==
  LET monthly_kwh ==
        RDiv(RMul(RMul(RMul(self.power_watts, self.hours_per_day),
                       self.days_per_month), self.quantity), Num(1000))
      errors1 == IF power_unrealistic(self.power_watts)
                   THEN <<[rule |-> "power", value |-> self.power_watts]>>
                   ELSE << >>
      errors2 == IF self.voltage \notin STANDARD_VOLTAGES
                   THEN Append(errors1,
                               [rule |-> "voltage", value |-> self.voltage])
                   ELSE errors1
      errors3 == IF RLt(Num(24), self.hours_per_day)
                   THEN Append(errors2, [rule |-> "hours", value |-> None])
                   ELSE errors2
      errors4 == IF RLt(Num(31), self.days_per_month)
                   THEN Append(errors3, [rule |-> "days", value |-> None])
                   ELSE errors3
      errors  == IF RLt(Num(2000), monthly_kwh)
                   THEN Append(errors4,
                               [rule |-> "consumption", value |-> monthly_kwh])
                   ELSE errors4
  IN  <<Len(errors) = 0, errors>>

----------------------------------------------------------------------------
(* Requests                                                                *)

MaxEnergySteps == 76
EnergyStepHalves == 25
PctDen == 4

\* energy_kwh: one negative value, 0, and multiples of 12.5 kWh up to 950
EnergyValues == {Rat(k * EnergyStepHalves, 2) : k \in -1..MaxEnergySteps}

\* peak_percentage: 0, 1/PctDen, ..., 1, one value above 1, and the default 0.3
PeakPercentages == {Rat(k, PctDen) : k \in 0..(PctDen + 1)} \cup {Rat(3, 10)}

\* "Ghana" has no regional configuration
CountryNames == DOMAIN regional_configs \cup {"Ghana"}

BillRequests ==
  [kind : {"bill"}, energy_kwh : EnergyValues, country : CountryNames,
   peak_percentage : PeakPercentages]

MaxPowerSteps == 2
MaxHourHalves == 3
MaxDays == 1
MaxQuantity == 2

PowerValues == {Num(k * 750) : k \in -1..MaxPowerSteps}

HourValues == {Rat(k, 2) : k \in -1..MaxHourHalves} \cup {Num(24)}

DayValues == {Num(k) : k \in -1..MaxDays} \cup {Num(30)}

QuantityValues == {Num(k) : k \in -1..MaxQuantity}

DeviceEnergyRequests ==
  [kind : {"device_energy"}, power_w : PowerValues, hours : HourValues,
   days : DayValues, quantity : QuantityValues]

TempMargin == 3
MaxHumiditySteps == 2

\* temperatures in steps of half a degree around the two limits and around
\* the reference
Temperatures ==
  {Rat(2 * c + k, 2) : c \in {TEMP_MIN, 22, TEMP_MAX},
                       k \in -TempMargin..TempMargin}

BaseEnergies == {Num(-10), Zero, Rat(5, 2), Num(100)}

\* thermal_sensitivity: the default 0.03, the coefficients of the engine,
\* and values large enough for the correction factor to fall below 0.1
ThermalSensitivities ==
  {Rat(3, 100), Rat(5, 100), Rat(-4, 100), Zero, Rat(1, 2), One, Num(-1)}

Humidities == {Num(50 + 10 * k) : k \in 0..MaxHumiditySteps}

DeviceTypes == DOMAIN thermal_coeffs \cup {"pump"}

ThermalRequests ==
  [kind : {"thermal"}, energy_base : BaseEnergies,
   temperature : Temperatures, thermal_sensitivity : ThermalSensitivities]

AdvancedThermalRequests ==
  [kind : {"advanced_thermal"}, energy_base : BaseEnergies,
   temperature : Temperatures, humidity : Humidities,
   device_type : DeviceTypes]

MaxDevices == 2

\* device dictionaries as the dashboard builds them; the lamp has no
\* category and the last one has no power
DeviceTemplates ==
  {[device_name |-> "AC", power_watts |-> Num(1500),
    hours_per_day |-> Num(8), days_per_month |-> Num(30),
    quantity |-> Num(1), category |-> "cooling"],
   [device_name |-> "Heater", power_watts |-> Num(2000),
    hours_per_day |-> Num(4), days_per_month |-> Num(30),
    quantity |-> Num(1), category |-> "heating"],
   [device_name |-> "Lamp", power_watts |-> Num(10),
    hours_per_day |-> Zero, days_per_month |-> Num(30),
    quantity |-> Num(4)],
   [device_name |-> "Unplugged", power_watts |-> Zero,
    hours_per_day |-> Num(1), days_per_month |-> Num(30),
    quantity |-> Num(1), category |-> "electronics"]}

DeviceLists ==
  UNION {[1..n -> DeviceTemplates] : n \in 0..MaxDevices}

TotalEnergyRequests ==
  [kind : {"total_energy"}, devices : DeviceLists,
   temperature : Temperatures, humidity : Humidities]

MaxTrainingSize == 11

\* len(training_data): none, and sizes around the minimum of 10
TrainingSizes == {0} \cup ((MIN_TRAINING - 1)..MaxTrainingSize)

\* what the trained regressor may predict as correction factor
PredictedFactors ==
  {Num(-1), Zero, Rat(1, 4), Rat(1, 2), One, Rat(3, 2), Num(2), Num(3)}

MlRequests ==
  [kind : {"ml"}, base_forecast : BaseEnergies,
   training_size : TrainingSizes, predicted : PredictedFactors]

MaxHistoryRows == 13
MaxForecastMonths == 3

\* the slopes of the histories, on both sides of 0.5 and of -0.5
HistorySlopes ==
  {Num(-1), Rat(-1, 2), Rat(-1, 4), Zero, Rat(1, 4), Rat(1, 2), Num(1)}

\* a history of n consecutive months that ends at month last: a line from
\* 20 kWh with the given slope, and bump kWh more in its third month
MakeHistory(n, last, slope, bump) ==
  [i \in 1..n |->
    [date |-> last - n + i,
     month |-> month_of(last - n + i),
     energy_kwh |-> RAdd(RAdd(Num(20), RMul(slope, Num(i - 1))),
                         IF i = 3 THEN bump ELSE Zero)]]

\* dates count months; 24.. keeps every date of a history positive
LastDates == {24, 30, 35}

SarimaRequests ==
  {[kind |-> "sarima",
    historical_data |-> MakeHistory(n, last, slope, bump),
    forecast_months |-> k] :
     n \in 4..MaxHistoryRows, last \in LastDates, slope \in HistorySlopes,
     bump \in {Zero, Num(12)}, k \in 0..MaxForecastMonths}

MaxSavingsSteps == 4

\* current_kwh and reduced_kwh: one negative value, 0, and steps of 150 kWh
SavingsEnergies == {Num(k * 150) : k \in -1..MaxSavingsSteps}

SavingsRequests ==
  [kind : {"savings"}, current_kwh : SavingsEnergies,
   reduced_kwh : SavingsEnergies, country : CountryNames]

MaxDashboardDevices == 2

\* devices as the dashboards store them in the session state
DashboardDevices ==
  {[name |-> "Rice Cooker", power |-> Num(400), hours |-> Num(1),
    quantity |-> Num(2)],
   [name |-> "Iron", power |-> Num(1000), hours |-> Rat(1, 2),
    quantity |-> Num(1)],
   [name |-> "Small AC", power |-> Num(800), hours |-> Num(6),
    quantity |-> Num(1)]}

DashboardDeviceLists ==
  UNION {[1..n -> DashboardDevices] : n \in 0..MaxDashboardDevices}

\* "Atlantis" is in neither table
DashboardCountries ==
  DOMAIN AFRICAN_COUNTRIES \cup DOMAIN ADVANCED_AFRICAN_COUNTRIES
    \cup {"Atlantis"}

\* 22 is the reference temperature; 0 and 44 change the energy by 3%
DashboardTemperatures == {Num(0), Num(22), Num(44)}

DashboardRequests ==
  [kind : {"dashboard"}, devices : DashboardDeviceLists,
   country : DashboardCountries, temperature : DashboardTemperatures,
   include_outages : BOOLEAN]

\* the API key the environment provides, or none
ApiKeys == {"", "sk-or-key"}

\* the behaviours of the API
ApiBehaviours ==
  {Answer(200, <<"Use LED bulbs.">>), Answer(200, << >>),
   Answer(401, << >>), Answer(500, << >>), Timeout, OtherException}

\* user messages, by the keywords they contain
UserMessages ==
  {{"save"}, {"save", "money"}, {"budget"}, {"buy", "grid"}, {"grid"}, {}}

MaxBudgetSteps == 2

\* the context the chat page builds from the session state
Contexts ==
  {[country |-> c, budget |-> 7500 * b, currency |-> "FCFA",
    household_size |-> 4, income_level |-> "Low"] :
     c \in {"Cameroon", "Kenya"}, b \in 0..MaxBudgetSteps}

AssistantRequests ==
  [kind : {"assistant"}, api_key : ApiKeys, test_api : ApiBehaviours,
   chat_api : ApiBehaviours, user_message : UserMessages,
   context : Contexts]

\* the fields of a DeviceInput that validate reads: values inside each
\* rule's range, on its edge and outside it
DeviceInputs ==
  [power_watts : {Num(-5), Zero, Num(1), Num(1500), Num(10000), Num(10001)},
   voltage : {Zero, Num(110), Num(115), Num(220), Num(240)},
   hours_per_day : {Num(-1), Zero, Num(12), Num(24), Rat(49, 2)},
   days_per_month : {Zero, Num(30), Num(31), Num(32)},
   quantity : {Num(-1), Num(1), Num(3), Num(20)}]

ValidateRequests == {[kind |-> "validate", device |-> d] : d \in DeviceInputs}


MaxSyntheticMonths == 3

\* months: the first few counts and the default of 12
SyntheticMonths == (0..MaxSyntheticMonths) \cup {12}

\* the draws of one call: as many as the longest history needs
DrawCount == 12 + MaxSyntheticMonths

\* every draw of the call is the same value: at the mean, one standard
\* deviation off it, and far in the lower tail
ConstantDraws ==
  {[i \in 1..DrawCount |-> r] :
     r \in {Num(-1), Zero, Rat(9, 10), One, Rat(11, 10)}}

SyntheticRequests ==
  [kind : {"synthetic"}, base_energy : {Num(-100), Zero, Num(100)},
   months : SyntheticMonths, last_date : LastDates, draws : ConstantDraws]

\* row i of a 12-month history relative to base_energy: flat, rising by a
\* twentieth per month, falling by a fortieth per month, flat with a third
\* month that falls under the floor, and under the floor throughout
HistoryShapes == {"flat", "rise", "fall", "dip", "floor"}

ShapeTarget(shape, i) ==
  CASE shape = "flat"  -> One
    [] shape = "rise"  -> RAdd(One, Rat(i - 1, 20))
    [] shape = "fall"  -> RSub(One, Rat(i - 1, 40))
    [] shape = "dip"   -> IF i = 3 THEN Rat(1, 4) ELSE One
    [] shape = "floor" -> Num(-1)

\* the draws that give a 12-month history ending at last_date that shape
ShapeDraws(shape, last_date) ==
  [i \in 1..DrawCount |->
    RDiv(ShapeTarget(shape, i),
         RMul(seasonal_patterns[month_of(last_date - 12 + i)],
              RAdd(One, Rat(i - 1, 100))))]

ForecastRequests ==
  {[kind |-> "forecast", base_energy |-> b, months |-> 12,
    last_date |-> l, draws |-> ShapeDraws(shape, l), months_ahead |-> k,
    country |-> c, training_size |-> t, predicted |-> p] :
     b \in {Num(20), Num(40)}, l \in LastDates, shape \in HistoryShapes,
     k \in 0..MaxForecastMonths, c \in {"Nigeria", "UK", "Ghana"},
     t \in {0, MIN_TRAINING}, p \in {Rat(1, 2), Num(2)}}

Requests ==
  BillRequests \cup DeviceEnergyRequests \cup ThermalRequests
    \cup AdvancedThermalRequests \cup TotalEnergyRequests
    \cup MlRequests \cup SarimaRequests \cup SavingsRequests
    \cup DashboardRequests \cup AssistantRequests \cup ValidateRequests
    \cup SyntheticRequests \cup ForecastRequests

Functions ==
  {"calculate_flat_tariff", "calculate_tiered_tariff",
   "calculate_time_of_use_tariff", "calculate_bill",
   "device_energy_basic", "device_energy", "calculate_device_energy",
   "thermal_ode_model", "temperature_adjustment",
   "physics_temperature_adjustment", "advanced_thermal_model",
   "calculate_total_energy",
   "train_ml_model", "ml_correction_layer", "sarima_forecast",
   "estimate_savings", "calculate_africa_bill",
   "calculate_comprehensive_bill", "initialize_ai", "get_response",
   "validate", "generate_synthetic_history", "comprehensive_forecast"}

Init ==
  /\ req \in Requests
  /\ ret = [f \in Functions |-> Pending]
  /\ is_trained = FALSE
  /\ africa_ai = NoObject
  /\ api_requests = 0

\* the call of function f on the request's arguments returns or raises out
Call(f, kind, out) ==
  /\ req.kind = kind
  /\ ret[f] = Pending
  /\ ret' = [ret EXCEPT ![f] = out]
  /\ UNCHANGED <<req, is_trained, africa_ai, api_requests>>

CalculateFlatTariff ==
  /\ req.kind = "bill"
  /\ req.country \in DOMAIN regional_configs
  /\ Call("calculate_flat_tariff", "bill",
          Ok(calculate_flat_tariff(req.energy_kwh,
                                   regional_configs[req.country])))

CalculateTieredTariff ==
  /\ req.kind = "bill"
  /\ req.country \in DOMAIN regional_configs
  /\ Call("calculate_tiered_tariff", "bill",
          Ok(calculate_tiered_tariff(req.energy_kwh,
                                     regional_configs[req.country])))

CalculateTimeOfUseTariff ==
  /\ req.kind = "bill"
  /\ req.country \in DOMAIN regional_configs
  /\ Call("calculate_time_of_use_tariff", "bill",
          Ok(calculate_time_of_use_tariff(req.energy_kwh,
               req.peak_percentage, regional_configs[req.country])))

CalculateBill ==
  /\ req.kind = "bill"
  /\ Call("calculate_bill", "bill",
          calculate_bill(req.energy_kwh, req.country, req.peak_percentage))

DeviceEnergyBasic ==
  /\ req.kind = "device_energy"
  /\ Call("device_energy_basic", "device_energy",
          device_energy_basic(req.power_w, req.hours, req.days, req.quantity))

DeviceEnergy ==
  /\ req.kind = "device_energy"
  /\ Call("device_energy", "device_energy",
          Ok(device_energy(req.power_w, req.hours, req.days, req.quantity)))

CalculateDeviceEnergy ==
  /\ req.kind = "device_energy"
  /\ Call("calculate_device_energy", "device_energy",
          Ok(calculate_device_energy(req.power_w, req.hours, req.days,
                                     req.quantity)))

ThermalOdeModel ==
  /\ req.kind = "thermal"
  /\ Call("thermal_ode_model", "thermal",
          thermal_ode_model(req.energy_base, req.temperature,
                            req.thermal_sensitivity))

TemperatureAdjustment ==
  /\ req.kind = "thermal"
  /\ Call("temperature_adjustment", "thermal",
          Ok(temperature_adjustment(req.energy_base, req.temperature,
                                    req.thermal_sensitivity)))

PhysicsTemperatureAdjustment ==
  /\ req.kind = "thermal"
  /\ Call("physics_temperature_adjustment", "thermal",
          physics_temperature_adjustment(req.energy_base, req.temperature,
                                         req.thermal_sensitivity))

AdvancedThermalModel ==
  /\ req.kind = "advanced_thermal"
  /\ Call("advanced_thermal_model", "advanced_thermal",
          advanced_thermal_model(req.energy_base, req.temperature,
                                 req.humidity, req.device_type))

CalculateTotalEnergy ==
  /\ req.kind = "total_energy"
  /\ Call("calculate_total_energy", "total_energy",
          calculate_total_energy(req.devices, req.temperature, req.humidity))

TrainMlModel ==
  /\ req.kind \in {"ml", "forecast"}
  /\ ret["train_ml_model"] = Pending
  /\ is_trained' = trained_after(is_trained, req.training_size)
  /\ ret' = [ret EXCEPT !["train_ml_model"] = Ok(None)]
  /\ UNCHANGED <<req, africa_ai, api_requests>>

MlCorrectionLayer ==
  /\ req.kind = "ml"
  /\ Call("ml_correction_layer", "ml",
          Ok(ml_correction_layer(req.base_forecast, req.predicted,
                                 is_trained)))

SarimaForecast ==
  /\ req.kind = "sarima"
  /\ Call("sarima_forecast", "sarima",
          sarima_forecast(req.historical_data, req.forecast_months))

EstimateSavings ==
  /\ req.kind = "savings"
  /\ Call("estimate_savings", "savings",
          estimate_savings(req.current_kwh, req.reduced_kwh, req.country))

CalculateAfricaBill ==
  /\ req.kind = "dashboard"
  /\ Call("calculate_africa_bill", "dashboard",
          calculate_africa_bill(req.devices, req.country,
                                req.include_outages))

CalculateComprehensiveBill ==
  /\ req.kind = "dashboard"
  /\ Call("calculate_comprehensive_bill", "dashboard",
          calculate_comprehensive_bill(req.devices, req.country,
                                       req.temperature))

\* africa_ai = initialize_ai()
InitializeAi ==
  /\ req.kind = "assistant"
  /\ ~africa_ai.constructed
  /\ LET init == africa_ai_init(req.api_key, req.test_api)
     IN  /\ africa_ai' = init.self
         /\ api_requests' = api_requests + init.posted
  /\ ret' = [ret EXCEPT !["initialize_ai"] = Ok(None)]
  /\ UNCHANGED <<req, is_trained>>

GetResponse ==
  /\ req.kind = "assistant"
  /\ africa_ai.constructed
  /\ ret["get_response"] = Pending
  /\ LET r == get_response(africa_ai, req.user_message, req.context,
                           req.chat_api)
     IN  /\ ret' = [ret EXCEPT !["get_response"] = r.out]
         /\ api_requests' = api_requests + r.posted
  /\ UNCHANGED <<req, is_trained, africa_ai>>

Validate ==
  /\ req.kind = "validate"
  /\ Call("validate", "validate", Ok(validate(req.device)))


GenerateSyntheticHistory ==
  \E kind \in {"synthetic", "forecast"} :
    Call("generate_synthetic_history", kind,
         Ok(generate_synthetic_history(req.base_energy, req.months,
                                       req.last_date, req.draws)))

ComprehensiveForecast ==
  /\ req.kind = "forecast"
  /\ Call("comprehensive_forecast", "forecast",
          comprehensive_forecast(req.base_energy, req.country,
                                 req.months_ahead, req.last_date,
                                 req.draws, req.predicted, is_trained))

Next ==
  \/ CalculateFlatTariff
  \/ CalculateTieredTariff
  \/ CalculateTimeOfUseTariff
  \/ CalculateBill
  \/ DeviceEnergyBasic
  \/ DeviceEnergy
  \/ CalculateDeviceEnergy
  \/ ThermalOdeModel
  \/ TemperatureAdjustment
  \/ PhysicsTemperatureAdjustment
  \/ AdvancedThermalModel
  \/ CalculateTotalEnergy
  \/ TrainMlModel
  \/ MlCorrectionLayer
  \/ SarimaForecast
  \/ EstimateSavings
  \/ CalculateAfricaBill
  \/ CalculateComprehensiveBill
  \/ InitializeAi
  \/ GetResponse
  \/ Validate
  \/ GenerateSyntheticHistory
  \/ ComprehensiveForecast

Spec == Init /\ [][Next]_vars

----------------------------------------------------------------------------
(* Billing claims                                                          *)

Done(f) == ret[f] # Pending

IsBill == req.kind = "bill"

Configured == IsBill /\ req.country \in DOMAIN regional_configs

Config == regional_configs[req.country]

NonNegativeEnergy == IsBill /\ RLe(Zero, req.energy_kwh)

\* the total width of the limited tiers before tier i
RECURSIVE WidthBelow(_, _)
WidthBelow(tiers, i) ==
  IF i <= 1 THEN Zero
  ELSE RAdd(WidthBelow(tiers, i - 1), tiers[i - 1].max_kwh)

\* reference: the energy that falls in tier i of a bill of e kWh
RefTierEnergy(tiers, i, e) ==
  LET above == RMax(Zero, RSub(e, WidthBelow(tiers, i)))
  IN  IF tiers[i].max_kwh = None THEN above
      ELSE RMin(above, tiers[i].max_kwh)

RECURSIVE RefEnergyCost(_, _, _)
RefEnergyCost(tiers, i, e) ==
  IF i = 0 THEN Zero
  ELSE RAdd(RefEnergyCost(tiers, i - 1, e),
            RMul(RefTierEnergy(tiers, i, e), tiers[i].rate_per_kwh))

RefBreakdown(tiers, e) ==
  LET all == [i \in 1..Len(tiers) |->
               [tier |-> tiers[i].description,
                energy_kwh |-> RefTierEnergy(tiers, i, e),
                rate |-> tiers[i].rate_per_kwh,
                cost |-> RMul(RefTierEnergy(tiers, i, e),
                              tiers[i].rate_per_kwh)]]
      received(entry) == RLt(Zero, entry.energy_kwh)
  IN  SelectSeq(all, received)

\* C1: for every tiered configuration and every energy_kwh >= 0,
\* calculate_tiered_tariff returns the energy_cost of the reference
\* computation (each limited tier takes min(remaining, max_kwh) at its rate,
\* the unlimited top tier takes the rest), and tier_breakdown lists exactly
\* the tiers that received energy, in list order.
C1_TieredMatchesReference ==
  (Configured /\ NonNegativeEnergy /\ Done("calculate_tiered_tariff")
     /\ Config.tariff_type = "tiered")
  => LET v == ret["calculate_tiered_tariff"].value
     IN  /\ v.energy_cost = RefEnergyCost(Config.tiers, Len(Config.tiers),
                                           req.energy_kwh)
         /\ v.tier_breakdown = RefBreakdown(Config.tiers, req.energy_kwh)

\* a tiered bill that reaches the unlimited top tier of a four-tier country
C1_Witness ==
  /\ Configured /\ NonNegativeEnergy /\ Done("calculate_tiered_tariff")
  /\ Config.tariff_type = "tiered"
  /\ Len(Config.tiers) = 4
  /\ Len(ret["calculate_tiered_tariff"].value.tier_breakdown) = 4

\* C2: calculate_flat_tariff bills all consumption at base_rate, whatever
\* tiers or peak settings the configuration carries: energy_cost =
\* energy_kwh * base_rate, and the bill is the one of the same configuration
\* without tiers and with another peak multiplier.
C2_FlatSingleRate ==
  (Configured /\ NonNegativeEnergy /\ Done("calculate_flat_tariff"))
  => LET v == ret["calculate_flat_tariff"].value
         bare == [Config EXCEPT !.tiers = << >>, !.peak_multiplier = One]
     IN  /\ RMul(v.energy_cost, Num(Config.base_rate[2]))
               = RMul(req.energy_kwh, Num(Config.base_rate[1]))
         /\ v = calculate_flat_tariff(req.energy_kwh, bare)
         /\ "tier_breakdown" \notin DOMAIN v

\* a flat bill computed for a configuration that has tiers
C2_Witness ==
  /\ Configured /\ Done("calculate_flat_tariff")
  /\ Config.tiers # << >>
  /\ RLt(Zero, req.energy_kwh)

TariffFunctions ==
  {"calculate_flat_tariff", "calculate_tiered_tariff",
   "calculate_time_of_use_tariff"}

\* C3: flat, tiered and time-of-use bills are closed the same way:
\* subtotal = energy_cost + fixed_charge, tax_amount = subtotal * tax_rate,
\* total_bill = subtotal + tax_amount = (energy_cost + fixed_charge) *
\* (1 + tax_rate); the fixed charge is taxed too.
C3_BillClosing ==
  \A f \in TariffFunctions :
    (Configured /\ Done(f))
    => LET v == ret[f].value
       IN  /\ v.fixed_charge = Config.fixed_charge
           /\ v.subtotal = RAdd(v.energy_cost, Config.fixed_charge)
           /\ v.tax_amount = RMul(v.subtotal, Config.tax_rate)
           /\ v.total_bill = RAdd(v.subtotal, v.tax_amount)
           /\ v.total_bill = RMul(RAdd(v.energy_cost, Config.fixed_charge),
                                  RAdd(One, Config.tax_rate))
           /\ RSub(v.tax_amount, RMul(v.energy_cost, Config.tax_rate))
                 = RMul(Config.fixed_charge, Config.tax_rate)

\* all three calculations have run for a positive consumption
C3_Witness ==
  /\ Configured
  /\ \A f \in TariffFunctions : Done(f)
  /\ RLt(Zero, req.energy_kwh)
  /\ RLt(Zero, ret["calculate_flat_tariff"].value.tax_amount)

PeakInRange ==
  IsBill /\ RLe(Zero, req.peak_percentage) /\ RLe(req.peak_percentage, One)

\* C4: for peak_percentage in [0, 1], calculate_time_of_use_tariff bills
\* peak_energy = energy_kwh * peak_percentage at base_rate * peak_multiplier
\* and off_peak_energy = energy_kwh * (1 - peak_percentage) at base_rate;
\* the two energies add up to energy_kwh and energy_cost = peak_cost +
\* off_peak_cost.
C4_TimeOfUseSplit ==
  (Configured /\ PeakInRange /\ Done("calculate_time_of_use_tariff"))
  => LET v == ret["calculate_time_of_use_tariff"].value
     IN  /\ v.peak_energy = RMul(req.energy_kwh, req.peak_percentage)
         /\ RAdd(v.peak_energy, v.off_peak_energy) = req.energy_kwh
         /\ v.peak_cost = RMul(RMul(v.peak_energy, Config.base_rate),
                               Config.peak_multiplier)
         /\ v.off_peak_cost = RMul(v.off_peak_energy, Config.base_rate)
         /\ v.energy_cost = RAdd(v.peak_cost, v.off_peak_cost)

\* a time-of-use bill with consumption in both periods
C4_Witness ==
  /\ Configured /\ PeakInRange /\ Done("calculate_time_of_use_tariff")
  /\ RLt(Zero, ret["calculate_time_of_use_tariff"].value.peak_energy)
  /\ RLt(Zero, ret["calculate_time_of_use_tariff"].value.off_peak_energy)

\* C5: calculate_bill raises ValueError and returns no bill when the country
\* has no configuration (checked first) or energy_kwh < 0; for a configured
\* country and energy_kwh >= 0, 0 included, it returns a bill.
C5_CalculateBillErrors ==
  (IsBill /\ Done("calculate_bill"))
  => LET r == ret["calculate_bill"]
     IN  /\ ~Configured
               => r = [status |-> "ValueError", msg |-> NoConfigMsg]
         /\ (Configured /\ ~NonNegativeEnergy)
               => r = [status |-> "ValueError", msg |-> NegativeEnergyMsg]
         /\ (Configured /\ NonNegativeEnergy)
               => /\ r.status = "ok"
                  /\ r.value.meta.energy_kwh = req.energy_kwh
                  /\ r.value.bill.fixed_charge = Config.fixed_charge

\* both checks would fail and the country check is the one that raised
C5_Witness ==
  /\ IsBill /\ Done("calculate_bill")
  /\ ~Configured /\ ~NonNegativeEnergy
  /\ ret["calculate_bill"].status = "ValueError"

----------------------------------------------------------------------------
(* Physics claims                                                          *)

IsDeviceEnergy == req.kind = "device_energy"

Positive(x) == x[1] > 0

AllPositive ==
  /\ IsDeviceEnergy
  /\ Positive(req.power_w) /\ Positive(req.hours)
  /\ Positive(req.days) /\ Positive(req.quantity)

EnergyFunctions ==
  {"device_energy_basic", "device_energy", "calculate_device_energy"}

\* C6: for positive power, hours, days and quantity, device_energy_basic,
\* energy_math.device_energy and calculate_device_energy all return
\* E = power_w * hours * days * quantity / 1000.
C6_EnergyEstimate ==
  (AllPositive /\ \A f \in EnergyFunctions : Done(f))
  => \A f \in EnergyFunctions :
       /\ ret[f].status = "ok"
       /\ RMul(ret[f].value, Num(1000))
            = RMul(RMul(req.power_w, req.quantity),
                   RMul(req.hours, req.days))

\* the three estimators have run for several devices over a month
C6_Witness ==
  /\ AllPositive
  /\ \A f \in EnergyFunctions : Done(f)
  /\ req.quantity = Num(2) /\ req.days = Num(30)
  /\ Positive(ret["device_energy_basic"].value)

IsThermal == req.kind = "thermal"

\* TEMP_MIN <= t <= TEMP_MAX
InRange(t) == t[1] >= TEMP_MIN * t[2] /\ t[1] <= TEMP_MAX * t[2]

\* 1 + alpha * (T - 22) / 22, over the common denominator 22
LinearFactor(alpha, t) ==
  RDiv(RAdd(Num(22), RMul(alpha, RSub(t, Num(22)))), Num(22))

TemperatureError == [status |-> "ValueError", msg |-> TemperatureMsg]

\* the device's parameters pass the guard of device_energy_basic
ValidDevice(device) ==
  /\ device.power_watts[1] > 0 /\ device.hours_per_day[1] >= 0
  /\ device.days_per_month[1] > 0 /\ device.quantity[1] > 0

\* C9: thermal_ode_model raises ValueError exactly when temperature < -50 or
\* temperature > 60 (-50 and 60 are accepted); advanced_thermal_model and
\* calculate_total_energy let this error through unchanged and then return
\* no partial result.
C9_TemperatureRange ==
  /\ \A f \in {"thermal_ode_model", "physics_temperature_adjustment"} :
       (IsThermal /\ Done(f))
       => /\ ~InRange(req.temperature) => ret[f] = TemperatureError
          /\ InRange(req.temperature) => ret[f].status = "ok"
  /\ (req.kind = "advanced_thermal" /\ Done("advanced_thermal_model"))
       => /\ ~InRange(req.temperature)
               => ret["advanced_thermal_model"] = TemperatureError
          /\ InRange(req.temperature)
               => ret["advanced_thermal_model"].status = "ok"
  /\ (req.kind = "total_energy" /\ Done("calculate_total_energy"))
       => LET r == ret["calculate_total_energy"]
              n == Len(req.devices)
          IN  /\ (~InRange(req.temperature) /\ n > 0
                     /\ ValidDevice(req.devices[1]))
                    => r = TemperatureError
              /\ (~InRange(req.temperature) /\ n > 0)
                    => r.status = "ValueError"
              /\ r.status # "ok" => DOMAIN r = {"status", "msg"}
              /\ (InRange(req.temperature)
                     /\ \A i \in 1..n : ValidDevice(req.devices[i]))
                    => r.status = "ok" /\ Len(r.value.devices) = n

\* calculate_total_energy is left by the temperature error of its first device
C9_Witness ==
  /\ req.kind = "total_energy" /\ Done("calculate_total_energy")
  /\ Len(req.devices) = 2
  /\ ValidDevice(req.devices[1])
  /\ req.temperature = Num(TEMP_MAX + 1)
  /\ ret["calculate_total_energy"] = TemperatureError

\* C10: for the same positive base energy and humidity, a 'cooling' device
\* gets a higher corrected energy at a higher temperature, and a 'heating'
\* device gets a higher corrected energy at a lower temperature.
C10_DirectionAware ==
  (req.kind = "advanced_thermal" /\ Done("advanced_thermal_model")
     /\ ret["advanced_thermal_model"].status = "ok"
     /\ Positive(req.energy_base))
  => \A t \in {u \in Temperatures : InRange(u)} :
       LET other == advanced_thermal_model(req.energy_base, t, req.humidity,
                                           req.device_type).value
           here  == ret["advanced_thermal_model"].value
       IN  /\ (req.device_type = "cooling" /\ RLt(req.temperature, t))
                 => RLt(here, other)
           /\ (req.device_type = "heating" /\ RLt(t, req.temperature))
                 => RLt(here, other)

\* the cooling half of C10, which the code satisfies
C10_CoolingOnly ==
  (req.kind = "advanced_thermal" /\ Done("advanced_thermal_model")
     /\ ret["advanced_thermal_model"].status = "ok"
     /\ Positive(req.energy_base) /\ req.device_type = "cooling")
  => \A t \in {u \in Temperatures : InRange(u)} :
       RLt(req.temperature, t)
         => RLt(ret["advanced_thermal_model"].value,
                advanced_thermal_model(req.energy_base, t, req.humidity,
                                       req.device_type).value)
----------------------------------------------------------------------------
(* Forecasting claims                                                      *)

IsMl == req.kind = "ml"

\* C11: ml_correction_layer returns base_forecast unchanged while the model
\* is untrained; once trained it returns base_forecast * c with c the
\* predicted factor clipped to [0.5, 2.0], so for base_forecast >= 0 the
\* result lies in [0.5 * base_forecast, 2.0 * base_forecast].
C11_BoundedCorrection ==
  [][(IsMl /\ ~Done("ml_correction_layer")
        /\ ret'["ml_correction_layer"] # Pending)
     => LET b == req.base_forecast
            v == ret'["ml_correction_layer"].value
            c == IF req.predicted[1] * 2 < req.predicted[2] THEN Rat(1, 2)
                 ELSE IF req.predicted[1] > 2 * req.predicted[2] THEN Num(2)
                 ELSE req.predicted
        IN  /\ ~is_trained => v = b
            /\ is_trained => v = RMul(b, c)
            /\ b[1] >= 0 => /\ RLe(RDiv(b, Num(2)), v)
                             /\ RLe(v, RAdd(b, b))]_vars

\* a trained model whose prediction 3 was clipped to 2
C11_Witness ==
  /\ IsMl /\ Done("ml_correction_layer") /\ is_trained
  /\ req.predicted = Num(3)
  /\ Positive(req.base_forecast)
  /\ ret["ml_correction_layer"].value = RAdd(req.base_forecast,
                                              req.base_forecast)

IsSarima == req.kind = "sarima"

\* C12: sarima_forecast raises ValueError for a history of fewer than 6
\* rows; for 6 rows or more it returns exactly forecast_months forecasts,
\* numbered 1..forecast_months, each with confidence_lower = 0.85 *
\* predicted_energy and confidence_upper = 1.15 * predicted_energy.
C12_SarimaShape ==
  (IsSarima /\ Done("sarima_forecast"))
  => LET r == ret["sarima_forecast"]
     IN  /\ Len(req.historical_data) < 6
               => r = [status |-> "ValueError", msg |-> HistoryMsg]
         /\ Len(req.historical_data) >= 6
               => /\ r.status = "ok"
                  /\ Len(r.value.forecasts) = req.forecast_months
                  /\ \A i \in 1..Len(r.value.forecasts) :
                       LET f == r.value.forecasts[i]
                       IN  /\ f.month = i
                           /\ RMul(f.confidence_lower, Rat(100, 85))
                                = f.predicted_energy
                           /\ RMul(f.confidence_upper, Rat(100, 115))
                                = f.predicted_energy

\* three forecasts from a history of exactly 6 rows
C12_Witness ==
  /\ IsSarima /\ Done("sarima_forecast")
  /\ Len(req.historical_data) = 6
  /\ ret["sarima_forecast"].status = "ok"
  /\ Len(ret["sarima_forecast"].value.forecasts) = 3
  /\ Positive(ret["sarima_forecast"].value.forecasts[3].predicted_energy)

----------------------------------------------------------------------------
(* Savings and dashboard claims                                            *)

IsSavings == req.kind = "savings"

\* C13: for every configured country, current_kwh >= 0 and reduced_kwh >= 0,
\* estimate_savings returns a breakdown with energy_reduction_kwh =
\* current_kwh - reduced_kwh, cost_savings = the difference of the two
\* calculate_bill totals, current_bill and reduced_bill equal to these
\* totals, and the percentages relative to current_kwh and to the current
\* bill.
C13_SavingsBreakdown ==
  (IsSavings /\ Done("estimate_savings")
     /\ req.country \in DOMAIN regional_configs
     /\ req.current_kwh[1] >= 0 /\ req.reduced_kwh[1] >= 0)
  => LET r == ret["estimate_savings"]
         config == regional_configs[req.country]
         total(e) == IF config.tariff_type = "tiered"
                       THEN calculate_tiered_tariff(e, config).total_bill
                       ELSE calculate_flat_tariff(e, config).total_bill
         cb == total(req.current_kwh)
         rb == total(req.reduced_kwh)
     IN  /\ r.status = "ok"
         /\ r.value.energy_reduction_kwh
              = RSub(req.current_kwh, req.reduced_kwh)
         /\ r.value.cost_savings = RSub(cb, rb)
         /\ r.value.current_bill = cb
         /\ r.value.reduced_bill = rb
         /\ RMul(r.value.energy_reduction_percent, req.current_kwh)
              = RMul(Num(100), r.value.energy_reduction_kwh)
         /\ RMul(r.value.cost_savings_percent, cb)
              = RMul(Num(100), r.value.cost_savings)

IsDashboard == req.kind = "dashboard"

\* the two tables hold equal rate, fixed-charge and tax constants for c
EqualConstants(c) ==
  /\ c \in DOMAIN AFRICAN_COUNTRIES
  /\ c \in DOMAIN ADVANCED_AFRICAN_COUNTRIES
  /\ AFRICAN_COUNTRIES[c].rate = ADVANCED_AFRICAN_COUNTRIES[c].rate
  /\ AFRICAN_COUNTRIES[c].fixed = ADVANCED_AFRICAN_COUNTRIES[c].fixed
  /\ AFRICAN_COUNTRIES[c].tax = ADVANCED_AFRICAN_COUNTRIES[c].tax

\* C14: on the same device list and a country with equal rate, fixed-charge
\* and tax constants, calculate_comprehensive_bill at temperature 22 and
\* calculate_africa_bill with include_outages = False return equal
\* total_energy, energy_cost, fixed_charge, tax and total_bill, and
\* total_bill = (sum of device energies * rate + fixed) * (1 + tax).
C14_SameBillingFormula ==
  (IsDashboard /\ Done("calculate_africa_bill")
     /\ Done("calculate_comprehensive_bill")
     /\ EqualConstants(req.country)
     /\ req.temperature = Num(22) /\ ~req.include_outages)
  => LET a == ret["calculate_africa_bill"]
         b == ret["calculate_comprehensive_bill"]
         config == AFRICAN_COUNTRIES[req.country]
         device_energies ==
           [i \in 1..Len(req.devices) |->
              RDiv(RMul(RMul(RMul(req.devices[i].power,
                                  req.devices[i].hours), Num(30)),
                        req.devices[i].quantity), Num(1000))]
     IN  /\ a.status = "ok" /\ b.status = "ok"
         /\ a.value.total_energy = b.value.total_energy
         /\ a.value.energy_cost = b.value.energy_cost
         /\ a.value.fixed_charge = b.value.fixed_charge
         /\ a.value.tax = b.value.tax
         /\ a.value.total_bill = b.value.total_bill
         /\ a.value.total_bill
              = RMul(RAdd(RMul(RSum(device_energies), config.rate),
                          config.fixed),
                     RAdd(One, config.tax))

C14_Witness ==
  /\ IsDashboard /\ Done("calculate_africa_bill")
  /\ Done("calculate_comprehensive_bill")
  /\ req.country = "Kenya" /\ Len(req.devices) = 2
  /\ req.temperature = Num(22) /\ ~req.include_outages
  /\ ret["calculate_africa_bill"].value.total_bill
       = ret["calculate_comprehensive_bill"].value.total_bill
  /\ RLt(Num(200), ret["calculate_africa_bill"].value.total_bill)

IsAssistant == req.kind = "assistant"

\* the cases in which the claim promises the canned fallback response
FallbackCase ==
  \/ ~africa_ai.enabled
  \/ req.chat_api.outcome \in {"timeout", "exception"}
  \/ req.chat_api.outcome = "answer" /\ req.chat_api.status_code # 200
  \/ req.chat_api.outcome = "answer" /\ req.chat_api.choices = << >>

----------------------------------------------------------------------------
(* Input validation claims                                                 *)

IsValidate == req.kind = "validate"

\* the rules of the claim that a device violates
ViolatedRules(d) ==
  {rule \in {"power", "voltage", "hours", "days", "consumption"} :
     \/ rule = "power" /\ ~(d.power_watts[1] > 0
                             /\ RLe(d.power_watts, Num(10000)))
     \/ rule = "voltage" /\ d.voltage \notin {Num(110), Num(120), Num(220),
                                               Num(230), Num(240)}
     \/ rule = "hours" /\ ~RLe(d.hours_per_day, Num(24))
     \/ rule = "days" /\ ~RLe(d.days_per_month, Num(31))
     \/ rule = "consumption"
          /\ ~RLe(RMul(RMul(RMul(RMul(d.power_watts, d.hours_per_day),
                                  d.days_per_month), d.quantity),
                        Rat(1, 1000)),
                   Num(2000))}

\* C16: validate returns (True, []) exactly when 0 < power_watts <= 10000,
\* the voltage is one of 110/120/220/230/240, hours_per_day <= 24,
\* days_per_month <= 31 and power*hours*days*quantity/1000 <= 2000;
\* otherwise it returns False with one error message per violated rule;
\* the boolean always equals "the error list is empty".
C16_ValidateRules ==
  (IsValidate /\ Done("validate"))
  => LET r == ret["validate"].value
         violated == ViolatedRules(req.device)
     IN  /\ ret["validate"].status = "ok"
         /\ r[1] = (r[2] = << >>)
         /\ (r[1] /\ r[2] = << >>) <=> violated = {}
         /\ Len(r[2]) = Cardinality(violated)
         /\ {r[2][i].rule : i \in 1..Len(r[2])} = violated

C16_Witness ==
  /\ IsValidate /\ Done("validate")
  /\ req.device.power_watts = Num(10000)
  /\ req.device.hours_per_day = Num(24)
  /\ req.device.days_per_month = Num(31)
  /\ req.device.voltage = Num(220)
  /\ ret["validate"].value[1] = FALSE
  /\ Len(ret["validate"].value[2]) = 1
  /\ ret["validate"].value[2][1].rule = "consumption"

----------------------------------------------------------------------------
(* Tier claims                                                             *)

IsTieredBill ==
  /\ Configured /\ NonNegativeEnergy /\ Done("calculate_tiered_tariff")
  /\ Config.tariff_type = "tiered"

\* the energy_kwh values of the first i entries of a tier_breakdown
BilledEnergies(tier_breakdown, i) ==
  [j \in 1..i |-> tier_breakdown[j].energy_kwh]

\* C17: in a tiered bill the consumption billed in the first i tiers
\* together never exceeds tier i's max_kwh (Nigeria: at most 50 kWh at the
\* Lifeline rate, at most 100 kWh in total at the Lifeline and R1 rates,
\* at most 300 kWh in total below the R3 rate), for every energy_kwh >= 0
\* and every tiered country.
C17_CumulativeTierBound ==
  IsTieredBill
  => LET breakdown == ret["calculate_tiered_tariff"].value.tier_breakdown
     IN  \A i \in 1..Len(breakdown) :
           Config.tiers[i].max_kwh # None
           => RLe(RSum(BilledEnergies(breakdown, i)),
                  Config.tiers[i].max_kwh)

\* C18: for every tiered country and every energy_kwh >= 0 the energy_kwh
\* values of tier_breakdown sum to the input energy_kwh, every entry has
\* energy > 0, and the cost values of tier_breakdown sum to energy_cost.
C18_TieredConservation ==
  IsTieredBill
  => LET v == ret["calculate_tiered_tariff"].value
         breakdown == v.tier_breakdown
     IN  /\ RSum(BilledEnergies(breakdown, Len(breakdown))) = req.energy_kwh
         /\ \A i \in 1..Len(breakdown) :
              RLt(Zero, breakdown[i].energy_kwh)
         /\ RSum([i \in 1..Len(breakdown) |-> breakdown[i].cost])
              = v.energy_cost

\* a bill that ends exactly on the edge of its second tier
C18_Witness ==
  /\ IsTieredBill
  /\ req.country = "Nigeria" /\ req.energy_kwh = Num(150)
  /\ Len(ret["calculate_tiered_tariff"].value.tier_breakdown) = 2
  /\ ret["calculate_tiered_tariff"].value.energy_cost = Num(6500)

----------------------------------------------------------------------------
(* Trend and synthetic history claims                                      *)

\* reference: the least-squares slope of y over x = 0, 1, ..., as the
\* covariance of x and y over the variance of x
RefSlope(y) ==
  LET n     == Len(y)
      x_bar == Rat(n - 1, 2)
      y_bar == RDiv(RSum(y), Num(n))
      cov   == RSum([i \in 1..n |->
                 RMul(RSub(Num(i - 1), x_bar), RSub(y[i], y_bar))])
      var   == RSum([i \in 1..n |->
                 RMul(RSub(Num(i - 1), x_bar), RSub(Num(i - 1), x_bar))])
  IN  RDiv(cov, var)

\* reference: the seasonal adjustment of calendar month m for a history
RefSeasonal(history, m) ==
  LET rows == {i \in 1..Len(history) : history[i].month = m}
      all  == [i \in 1..Len(history) |-> history[i].energy_kwh]
      in_m == [i \in 1..Len(history) |->
                IF i \in rows THEN history[i].energy_kwh ELSE Zero]
  IN  IF rows = {} THEN seasonal_patterns[m]
      ELSE RDiv(RDiv(RSum(in_m), Num(Cardinality(rows))),
                RDiv(RSum(all), Num(Len(history))))

\* C19: sarima_forecast classifies the linear-regression slope of the
\* history into exactly one trend: Stable when |slope| < 0.5, Increasing
\* when slope >= 0.5, Decreasing when slope <= -0.5; and each month's
\* forecast is (last observed energy + slope * i) times that month's
\* seasonal adjustment.
C19_TrendAndForecast ==
  (IsSarima /\ Done("sarima_forecast")
     /\ ret["sarima_forecast"].status = "ok")
  => LET v == ret["sarima_forecast"].value
         history == req.historical_data
         slope == RefSlope([i \in 1..Len(history) |->
                             history[i].energy_kwh])
         last == history[Len(history)]
     IN  /\ v.trend_coefficient = slope
         /\ v.trend_direction \in {"Stable", "Increasing", "Decreasing"}
         /\ v.trend_direction = "Stable"
              <=> RLt(Rat(-1, 2), slope) /\ RLt(slope, Rat(1, 2))
         /\ v.trend_direction = "Increasing" <=> RLe(Rat(1, 2), slope)
         /\ v.trend_direction = "Decreasing" <=> RLe(slope, Rat(-1, 2))
         /\ \A i \in 1..Len(v.forecasts) :
              LET f == v.forecasts[i]
              IN  /\ f.seasonal_factor
                       = RefSeasonal(history, month_of(last.date + i))
                  /\ f.predicted_energy
                       = RMul(RAdd(last.energy_kwh, RMul(slope, Num(i))),
                              f.seasonal_factor)

\* a history whose slope is exactly -0.5, forecast three months ahead
C19_Witness ==
  /\ IsSarima /\ Done("sarima_forecast")
  /\ ret["sarima_forecast"].status = "ok"
  /\ ret["sarima_forecast"].value.trend_coefficient = Rat(-1, 2)
  /\ ret["sarima_forecast"].value.trend_direction = "Decreasing"
  /\ Len(ret["sarima_forecast"].value.forecasts) = 3
  /\ Len(req.historical_data) = 13

IsSynthetic == req.kind \in {"synthetic", "forecast"}

IsForecast == req.kind = "forecast"

\* C20: generate_synthetic_history returns exactly `months` rows and, for
\* base_energy >= 0, every row's energy_kwh is at least 0.5 * base_energy;
\* comprehensive_forecast asks for 12 rows, so it never fails with the
\* "at least 6 months" error of sarima_forecast.
C20_SyntheticHistory ==
  /\ (IsSynthetic /\ Done("generate_synthetic_history"))
       => LET rows == ret["generate_synthetic_history"].value
          IN  /\ Len(rows) = req.months
              /\ RLe(Zero, req.base_energy)
                   => \A i \in 1..Len(rows) :
                        RLe(RMul(Rat(1, 2), req.base_energy),
                            rows[i].energy_kwh)
  /\ (IsForecast /\ Done("comprehensive_forecast"))
       => /\ ret["comprehensive_forecast"]
               # Raise("ValueError", HistoryMsg)
          /\ ~too_short(generate_synthetic_history(req.base_energy, 12,
                           req.last_date, req.draws))

\* a 12-month history whose third row was lifted to the floor and whose
\* other rows lie above it, and the forecast made from that history
C20_Witness ==
  /\ IsForecast /\ Done("generate_synthetic_history")
  /\ Done("comprehensive_forecast")
  /\ ret["comprehensive_forecast"].status = "ok"
  /\ req.base_energy = Num(20)
  /\ LET rows == ret["generate_synthetic_history"].value
     IN  /\ Len(rows) = 12
         /\ rows[3].energy_kwh = Num(10)
         /\ rows[12].energy_kwh = Num(20)

====
